---- MODULE Spec2Model ----
(***************************************************************************)
(* Model of imagekit/cachefiles/backends.py: the cache-backed state of a   *)
(* generated file (CacheFileState), CachedFileBackend.get_state /          *)
(* set_state / exists / generate_now, Simple.generate, Simple._exists,     *)
(* the celery task _generate_file and Async.generate.                      *)
(*                                                                         *)
(* A call is a sequence of steps, one per access to a shared resource      *)
(* (cache.get, cache.set, storage.exists, file._generate, task.delay).     *)
(* proc[p] holds the position and the local variables of process p.        *)
(***************************************************************************)
EXTENDS Naturals, Sequences, FiniteSets

VARIABLES
    cache,      \* the Django cache: key -> [state, ttl]; ttl = time-units left
    storage,    \* file.storage: file name -> is the file present
    staged,     \* file -> does the file object carry an in-memory _file
    queue,      \* the celery queue: tasks _generate_file.delay(...) not yet run
    proc,       \* process -> the call it is executing, its position and locals
    last,       \* summary of the call that returned most recently before the calls in proc
    renders,    \* file -> number of completed file._generate() runs
    celery,     \* can celery be imported
    async       \* Async(): "unbuilt", "built", or the exception __init__ raised

vars == <<cache, storage, staged, queue, proc, last, renders, celery, async>>

-----------------------------------------------------------------------------
\* Bounds of the model.

\* Timeout of the CACHES setting, used by cache.set(key, state) without a
\* timeout (line 78); "should be very high" (lines 45-46), here just longer
\* than existence_check_timeout.
DefaultTimeout == 7

\* Tasks the queue holds at most.
MaxQueue == 2

\* Completed renders of one file after which no further generation is started.
MaxRenders == 2

Files == {"thumb.jpg"}
Callers == {"c1", "c2"}
Workers == {"w1"}
Procs == Callers \cup Workers

-----------------------------------------------------------------------------
\* class CacheFileState

EXISTS == "exists"
GENERATING == "generating"
DOES_NOT_EXIST == "does_not_exist"

CacheFileState == {EXISTS, GENERATING, DOES_NOT_EXIST}

\* Python's None: what cache.get returns for a missing or expired key.
None == "None"

\* CachedFileBackend.existence_check_timeout
existence_check_timeout == 5

\* settings.IMAGEKIT_CACHE_PREFIX
IMAGEKIT_CACHE_PREFIX == "ik:"

\* CachedFileBackend.get_key: '%s%s-state' % (prefix, file.name)
get_key(file) == <<IMAGEKIT_CACHE_PREFIX, file, "-state">>

Keys == {get_key(f) : f \in Files}

-----------------------------------------------------------------------------
\* The cache backend (django.core.cache): get, set with a timeout, expiry.

NoRecord == [state |-> None, ttl |-> 0]

\* cache.get(key)
cache_get(c, key) == c[key].state

\* cache.set(key, value, timeout)
cache_set(c, key, value, timeout) ==
    [c EXCEPT ![key] = [state |-> value, ttl |-> timeout]]

\* One time-unit passes: every record is one unit closer to its expiry, and a
\* record whose time is up is gone.
Expire(c) ==
    [k \in Keys |-> IF c[k].ttl > 1
                    THEN [c[k] EXCEPT !.ttl = @ - 1]
                    ELSE NoRecord]

\* set_state with one timeout for every state: the DOES_NOT_EXIST branch lost.
set_state_OneTimeout(c, file, state) ==
    cache_set(c, get_key(file), state, DefaultTimeout)

\* set_state with the short timeout for every state.
set_state_ShortTimeout(c, file, state) ==
    cache_set(c, get_key(file), state, existence_check_timeout)

\* CachedFileBackend.set_state, as the cache it leaves behind.
set_state(c, file, state) ==
    IF state = DOES_NOT_EXIST
    THEN cache_set(c, get_key(file), state, existence_check_timeout)
    ELSE cache_set(c, get_key(file), state, DefaultTimeout)

\* _exists that asks storage only and overlooks file._file.
_exists_StorageOnly(file) == storage[file]

\* Simple._exists: bool(getattr(file, '_file', None) or file.storage.exists(file.name))
_exists(file) == staged[file] \/ storage[file]

\* get_state that stores None when the probe finds nothing.
state_of_probe_NoneOnMiss(exists) == IF exists THEN EXISTS ELSE None

\* get_state, line 69: the state derived from the probe.
state_of_probe(exists) == IF exists THEN EXISTS ELSE DOES_NOT_EXIST

\* The probe made on every miss, check_if_unknown forgotten.
must_check_Always(state, check_if_unknown) == state = None

\* get_state that probes whenever it is asked to, whatever the cache holds.
must_check_IgnoresCache(state, check_if_unknown) == check_if_unknown

\* get_state, line 67: is the probe made.
must_check(state, check_if_unknown) == state = None /\ check_if_unknown

\* The guard with GENERATING left out of the tuple.
not_generated_GeneratingForgotten(state) == state \notin {EXISTS}

\* The guard with EXISTS left out of the tuple.
not_generated_ExistsForgotten(state) == state \notin {GENERATING}

\* generate_now, line 94, the part after "force or": applied to get_state's result.
not_generated(state) == state \notin {GENERATING, EXISTS}

\* generate_now that reads the state first and forgets force.
generate_now_entry_ForceForgotten(force) == "cache_get"

\* generate_now, line 94: "force or ..." does not evaluate get_state when force.
\* The position a generate_now call starts at.
generate_now_entry(force) == IF force THEN "set_generating" ELSE "cache_get"

\* Async.generate that schedules without looking at the state.
should_schedule_Always(state, force) == TRUE

\* Async.generate, line 146: the condition under which the task is scheduled.
should_schedule(state, force) == state \notin {GENERATING, EXISTS}

\* file._generate() when it does not raise: the file is written to storage.
_generate(s, file) == [s EXCEPT ![file] = TRUE]

-----------------------------------------------------------------------------
\* Async.__init__ that goes on without celery.
Async_init_result_Lenient(importable) == "built"

\* Async.__init__, lines 133-138: the outcome of the constructor.
Async_init_result(importable) ==
    IF importable THEN "built" ELSE "ImproperlyConfigured"

\* Async() is constructed.
Async_init ==
    /\ async = "unbuilt"
    /\ async' = Async_init_result(celery)
    /\ UNCHANGED <<celery, cache, storage, staged, queue, proc, last, renders>>

\* Processes: callers of the backend and celery workers.

\* The operations a process can be executing.
GenOps == {"generate_now", "Simple_generate", "_generate_file"}

Bool(b) == IF b THEN "True" ELSE "False"

\* A process that executes no call. trace lists, in order, the accesses the
\* current call has made: <<"get", state read>>, <<"probe", result>>,
\* <<"set", state written>>, <<"render", "ok" | "raise">>, <<"delay", force>>.
\* pre is the cached state when the call began.
Idle == [op |-> "idle", pc |-> "idle", file |-> None, force |-> FALSE,
         check |-> FALSE, state |-> None, exists |-> FALSE, pre |-> None,
         ret |-> None, trace |-> <<>>]

Active(p) == proc[p].pc \notin {"idle", "returned", "raised"}

\* Generations of file in progress, and Async.generate calls in progress.
Generating(file) ==
    {q \in Procs : Active(q) /\ proc[q].op \in GenOps /\ proc[q].file = file}
Scheduling == {q \in Procs : Active(q) /\ proc[q].op = "Async_generate"}

GenRoom(file) == renders[file] + Cardinality(Generating(file)) < MaxRenders
QueueRoom == Len(queue) + Cardinality(Scheduling) < MaxQueue

\* Process p begins the call op(file, force | check_if_unknown) at position pos.
Begin(p, o, f, frc, chk, pos) ==
    /\ proc[p].pc = "idle"
    /\ proc' = [proc EXCEPT ![p] =
                   [Idle EXCEPT !.op = o, !.pc = pos, !.file = f, !.force = frc,
                                !.check = chk,
                                !.pre = cache_get(cache, get_key(f))]]

\* get_state(file, check_if_unknown) is called.
Call_get_state(p, f, chk) ==
    /\ p \in Callers
    /\ Begin(p, "get_state", f, FALSE, chk, "cache_get")
    /\ UNCHANGED <<celery, async, cache, storage, staged, queue, last, renders>>

\* exists(file) is called: get_state(file) with the default check_if_unknown.
Call_exists(p, f) ==
    /\ p \in Callers
    /\ Begin(p, "exists", f, FALSE, TRUE, "cache_get")
    /\ UNCHANGED <<celery, async, cache, storage, staged, queue, last, renders>>

\* generate_now(file, force) is called.
Call_generate_now(p, f, frc) ==
    /\ p \in Callers
    /\ GenRoom(f)
    /\ Begin(p, "generate_now", f, frc, TRUE, generate_now_entry(frc))
    /\ UNCHANGED <<celery, async, cache, storage, staged, queue, last, renders>>

\* Simple.generate(file, force) is called: generate_now(file, force=force).
Call_Simple_generate(p, f, frc) ==
    /\ p \in Callers
    /\ GenRoom(f)
    /\ Begin(p, "Simple_generate", f, frc, TRUE, generate_now_entry(frc))
    /\ UNCHANGED <<celery, async, cache, storage, staged, queue, last, renders>>

\* Async.generate(file, force) is called: get_state(file, check_if_unknown=False).
Call_Async_generate(p, f, frc) ==
    /\ p \in Callers
    /\ async = "built"
    /\ QueueRoom
    /\ Begin(p, "Async_generate", f, frc, FALSE, "cache_get")
    /\ UNCHANGED <<celery, async, cache, storage, staged, queue, last, renders>>

\* A worker takes the oldest task and runs _generate_file(backend, file, force).
RunTask(p) ==
    /\ p \in Workers
    /\ queue # <<>>
    /\ GenRoom(Head(queue).file)
    /\ Begin(p, "_generate_file", Head(queue).file, Head(queue).force, TRUE,
             generate_now_entry(Head(queue).force))
    /\ queue' = Tail(queue)
    /\ UNCHANGED <<celery, async, cache, storage, staged, last, renders>>

\* What the caller of get_state does with the state it returns (r.state).
after_get_state(r) ==
    CASE r.op = "get_state" ->
            [r EXCEPT !.pc = "returned", !.ret = r.state]
      [] r.op = "exists" ->
            [r EXCEPT !.pc = "returned", !.ret = Bool(r.state = EXISTS)]
      [] r.op \in GenOps ->
            [r EXCEPT !.pc = IF not_generated(r.state)
                             THEN "set_generating" ELSE "returned"]
      [] r.op = "Async_generate" ->
            [r EXCEPT !.pc = IF should_schedule(r.state, r.force)
                             THEN "delay" ELSE "returned"]

\* get_state, lines 65-67: state = self.cache.get(key)
CacheGet(p) ==
    /\ proc[p].pc = "cache_get"
    /\ LET s == cache_get(cache, get_key(proc[p].file))
           r == [proc[p] EXCEPT !.state = s, !.trace = Append(@, <<"get", s>>)]
       IN  proc' = [proc EXCEPT ![p] =
                       IF must_check(s, r.check)
                       THEN [r EXCEPT !.pc = "probe"]
                       ELSE after_get_state(r)]
    /\ UNCHANGED <<celery, async, cache, storage, staged, queue, last, renders>>

\* get_state, line 68: exists = self._exists(file)
Probe(p) ==
    /\ proc[p].pc = "probe"
    /\ LET e == _exists(proc[p].file)
       IN  proc' = [proc EXCEPT ![p] =
                       [@ EXCEPT !.pc = "set_probed", !.exists = e,
                                 !.trace = Append(@, <<"probe", Bool(e)>>)]]
    /\ UNCHANGED <<celery, async, cache, storage, staged, queue, last, renders>>

\* get_state, lines 69-71: the state is derived, stored and returned.
SetProbed(p) ==
    /\ proc[p].pc = "set_probed"
    /\ LET s == state_of_probe(proc[p].exists)
           r == [proc[p] EXCEPT !.state = s, !.trace = Append(@, <<"set", s>>)]
       IN  /\ cache' = set_state(cache, proc[p].file, s)
           /\ proc' = [proc EXCEPT ![p] = after_get_state(r)]
    /\ UNCHANGED <<celery, async, storage, staged, queue, last, renders>>

\* generate_now that marks the file EXISTS before it is rendered.
SetGenerating_WritesExists(p) ==
    /\ proc[p].pc = "set_generating"
    /\ cache' = set_state(cache, proc[p].file, EXISTS)
    /\ proc' = [proc EXCEPT ![p] =
                   [@ EXCEPT !.pc = "render",
                             !.trace = Append(@, <<"set", EXISTS>>)]]
    /\ UNCHANGED <<celery, async, storage, staged, queue, last, renders>>

\* generate_now, line 95: self.set_state(file, CacheFileState.GENERATING)
SetGenerating(p) ==
    /\ proc[p].pc = "set_generating"
    /\ cache' = set_state(cache, proc[p].file, GENERATING)
    /\ proc' = [proc EXCEPT ![p] =
                   [@ EXCEPT !.pc = "render",
                             !.trace = Append(@, <<"set", GENERATING>>)]]
    /\ UNCHANGED <<celery, async, storage, staged, queue, last, renders>>

\* generate_now, line 96: file._generate() completes.
RenderOk(p) ==
    /\ proc[p].pc = "render"
    /\ storage' = _generate(storage, proc[p].file)
    /\ renders' = [renders EXCEPT ![proc[p].file] = @ + 1]
    /\ proc' = [proc EXCEPT ![p] =
                   [@ EXCEPT !.pc = "set_exists",
                             !.trace = Append(@, <<"render", "ok">>)]]
    /\ UNCHANGED <<celery, async, cache, staged, queue, last>>

\* A generate_now that catches the exception, puts DOES_NOT_EXIST back and
\* re-raises.
RenderRaise_RollsBack(p) ==
    /\ proc[p].pc = "render"
    /\ cache' = set_state(cache, proc[p].file, DOES_NOT_EXIST)
    /\ proc' = [proc EXCEPT ![p] =
                   [@ EXCEPT !.pc = "raised",
                             !.trace = Append(@, <<"render", "raise">>)]]
    /\ UNCHANGED <<celery, async, storage, staged, queue, last, renders>>

\* generate_now, line 96: file._generate() raises; nothing catches it, so the
\* exception leaves generate_now (and generate, or the task).
RenderRaise(p) ==
    /\ proc[p].pc = "render"
    /\ proc' = [proc EXCEPT ![p] =
                   [@ EXCEPT !.pc = "raised",
                             !.trace = Append(@, <<"render", "raise">>)]]
    /\ UNCHANGED <<celery, async, cache, storage, staged, queue, last, renders>>

\* A generate_now that returns after the render without line 97.
SetExists_Forgotten(p) ==
    /\ proc[p].pc = "set_exists"
    /\ proc' = [proc EXCEPT ![p] = [@ EXCEPT !.pc = "returned"]]
    /\ UNCHANGED <<celery, async, cache, storage, staged, queue, last, renders>>

\* generate_now, line 97: self.set_state(file, CacheFileState.EXISTS)
SetExists(p) ==
    /\ proc[p].pc = "set_exists"
    /\ cache' = set_state(cache, proc[p].file, EXISTS)
    /\ proc' = [proc EXCEPT ![p] =
                   [@ EXCEPT !.pc = "returned",
                             !.trace = Append(@, <<"set", EXISTS>>)]]
    /\ UNCHANGED <<celery, async, storage, staged, queue, last, renders>>

\* Async.generate, line 147: _generate_file.delay(self, file, force=force)
Delay(p) ==
    /\ proc[p].pc = "delay"
    /\ queue' = Append(queue, [file |-> proc[p].file, force |-> proc[p].force])
    /\ proc' = [proc EXCEPT ![p] =
                   [@ EXCEPT !.pc = "returned",
                             !.trace = Append(@, <<"delay", Bool(proc[p].force)>>)]]
    /\ UNCHANGED <<celery, async, cache, storage, staged, last, renders>>

\* The caller (or the worker) is done with the finished call and is free for
\* the next one.
Return(p) ==
    /\ proc[p].pc \in {"returned", "raised"}
    /\ last' = proc[p]
    /\ proc' = [proc EXCEPT ![p] = Idle]
    /\ UNCHANGED <<celery, async, cache, storage, staged, queue, renders>>

-----------------------------------------------------------------------------
\* The environment.

\* One time-unit passes.
Tick ==
    /\ \E k \in Keys : cache[k] # NoRecord
    /\ cache' = Expire(cache)
    /\ UNCHANGED <<celery, async, storage, staged, queue, proc, last, renders>>

\* The file appears in storage without this backend having generated it.
StorageAppear(f) ==
    /\ ~storage[f]
    /\ storage' = [storage EXCEPT ![f] = TRUE]
    /\ UNCHANGED <<celery, async, cache, staged, queue, proc, last, renders>>

-----------------------------------------------------------------------------
\* Specification: calls are made one after the other (a caller's call and a
\* worker's task never overlap), and time passes and storage changes between
\* calls only.

Init ==
    /\ cache = [k \in Keys |-> NoRecord]
    /\ storage \in [Files -> BOOLEAN]
    /\ staged \in [Files -> BOOLEAN]
    /\ queue = <<>>
    /\ proc = [p \in Procs |-> Idle]
    /\ last = Idle
    /\ renders = [f \in Files |-> 0]
    /\ celery \in BOOLEAN
    /\ async = "unbuilt"

AllIdle == \A p \in Procs : proc[p].pc = "idle"
NoneActive == \A p \in Procs : ~Active(p)

Call(p) ==
    \E f \in Files :
        \/ \E chk \in BOOLEAN : Call_get_state(p, f, chk)
        \/ Call_exists(p, f)
        \/ \E frc \in BOOLEAN : Call_generate_now(p, f, frc)
        \/ \E frc \in BOOLEAN : Call_Simple_generate(p, f, frc)
        \/ \E frc \in BOOLEAN : Call_Async_generate(p, f, frc)

Step(p) ==
    \/ CacheGet(p)
    \/ Probe(p)
    \/ SetProbed(p)
    \/ SetGenerating(p)
    \/ RenderOk(p)
    \/ RenderRaise(p)
    \/ SetExists(p)
    \/ Delay(p)

Next ==
    \/ \E p \in Procs : AllIdle /\ Call(p)
    \/ \E p \in Procs : AllIdle /\ RunTask(p)
    \/ \E p \in Procs : Step(p)
    \/ \E p \in Procs : Return(p)
    \/ NoneActive /\ Tick
    \/ \E f \in Files : NoneActive /\ StorageAppear(f)
    \/ NoneActive /\ Async_init

Spec == Init /\ [][Next]_vars

-----------------------------------------------------------------------------
\* Vocabulary of the properties.

\* The step with which the call of p returns, or raises.
Returns(p) == proc[p].pc # "returned" /\ proc'[p].pc = "returned"
Raises(p) == proc[p].pc # "raised" /\ proc'[p].pc = "raised"

\* The cached state of file: what cache.get gives at this moment.
cached(file) == cache_get(cache, get_key(file))

\* Did the call with record r run file._generate(), and did it complete.
Rendered(r) == \E i \in 1..Len(r.trace) : r.trace[i] = <<"render", "ok">>
Attempts(r) == Cardinality({i \in 1..Len(r.trace) : r.trace[i][1] = "render"})
Probes(r) == Cardinality({i \in 1..Len(r.trace) : r.trace[i][1] = "probe"})
Reads(r) == Cardinality({i \in 1..Len(r.trace) : r.trace[i][1] = "get"})
\* What the call's cache.get returned ("unread" if it has made none).
Read(r) ==
    IF r.trace # <<>> /\ r.trace[1][1] = "get" THEN r.trace[1][2] ELSE "unread"
\* The states the call wrote to the cache, in order.
Writes(r) == SelectSeq(r.trace, LAMBDA e : e[1] = "set")

-----------------------------------------------------------------------------
\* C1 as stated: every generate_now(file, force) that returns without raising
\* leaves the cached state EXISTS and the file present in storage, whatever
\* the state before and whatever force.
C1_AsStated ==
    [][\A p \in Procs :
          Returns(p) /\ proc'[p].op = "generate_now"
          => /\ cache_get(cache', get_key(proc'[p].file)) = EXISTS
             /\ storage'[proc'[p].file]]_vars

\* C1 amended: a generate_now that returns without raising leaves the cached
\* state EXISTS unless it was not forced and read GENERATING, and then it
\* leaves the cache as it was, GENERATING; the file is present in storage
\* when the call rendered, and otherwise present for the existence probe
\* (in storage or attached to the file object) when the state is EXISTS.
C1_ReturnLeavesExists ==
    [][\A p \in Procs :
          Returns(p) /\ proc'[p].op \in GenOps
          => LET r == proc'[p]
                 f == r.file
             IN  /\ (r.force \/ r.state # GENERATING) => cache_get(cache', get_key(f)) = EXISTS
                 /\ (~r.force /\ r.state = GENERATING)
                        => cache' = cache /\ cache_get(cache', get_key(f)) = GENERATING
                 /\ (r.force \/ r.state = DOES_NOT_EXIST)
                        => Rendered(r) /\ storage'[f]
                 /\ cache_get(cache', get_key(f)) = EXISTS => staged'[f] \/ storage'[f]]_vars

\* A forced generate_now that found GENERATING (left by a failed render)
\* has returned, and the state is EXISTS.
C1_Witness ==
    \E p \in Procs :
        /\ proc[p].op = "generate_now" /\ proc[p].pc = "returned"
        /\ proc[p].force /\ proc[p].pre = GENERATING
        /\ cached(proc[p].file) = EXISTS /\ storage[proc[p].file]

-----------------------------------------------------------------------------
Scheduled(r) == \E i \in 1..Len(r.trace) : r.trace[i][1] = "delay"
Finished(r) == r.pc \in {"returned", "raised"}

\* C2 as stated: generate(file, force=true) of either dispatcher, in any cached
\* state, bypasses the no-op short-circuit: Simple.generate (and the task
\* Async schedules) writes GENERATING and runs the render, and Async.generate
\* schedules the task that will.
C2_AsStated ==
    \A p \in Procs :
        LET r == proc[p]
        IN  Finished(r) /\ r.force
            => /\ r.op = "Simple_generate"
                    => /\ Writes(r) # <<>>
                       /\ Head(Writes(r)) = <<"set", GENERATING>>
                       /\ Attempts(r) = 1
               /\ r.op = "Async_generate" => Scheduled(r)

-----------------------------------------------------------------------------
\* The task scheduled for file with force.
Task(file, force) == [file |-> file, force |-> force]

\* C3: an Async.generate(file) that finds the state absent or DOES_NOT_EXIST
\* schedules exactly one task. A non-forced task that finds the file not
\* generated takes the state DOES_NOT_EXIST -> GENERATING -> EXISTS and
\* renders once; a non-forced render only ever happens when the file has not
\* been rendered before, so a duplicate task that runs afterwards reads
\* EXISTS and is a no-op, and the file is rendered exactly once in total.
C3_OneTaskOneRender ==
    [][\A p \in Procs :
          LET r == proc'[p]
              f == r.file
          IN  /\ Returns(p) /\ r.op = "Async_generate"
                     /\ r.state \in {None, DOES_NOT_EXIST}
                 => /\ queue' = Append(queue, Task(f, r.force))
                    /\ cache' = cache
                    /\ r.trace = <<<<"get", r.state>>, <<"delay", Bool(r.force)>>>>
              /\ Returns(p) /\ r.op = "_generate_file" /\ ~r.force
                 => \/ /\ r.trace[1] = <<"get", DOES_NOT_EXIST>>
                       /\ r.trace = <<<<"get", DOES_NOT_EXIST>>,
                                      <<"set", GENERATING>>, <<"render", "ok">>,
                                      <<"set", EXISTS>>>>
                       /\ renders'[f] = 1
                    \/ /\ r.trace[1] = <<"get", None>> /\ ~r.exists
                       /\ r.trace = <<<<"get", None>>, <<"probe", "False">>,
                                      <<"set", DOES_NOT_EXIST>>,
                                      <<"set", GENERATING>>, <<"render", "ok">>,
                                      <<"set", EXISTS>>>>
                       /\ renders'[f] = 1
                    \/ /\ r.state \in {GENERATING, EXISTS}
                       /\ Attempts(r) = 0
                       /\ \A i \in 1..Len(Writes(r)) : Writes(r)[i] = <<"set", EXISTS>>
              /\ proc[p].pc = "set_generating" /\ r.pc = "render" /\ ~r.force
                 => cached(f) = DOES_NOT_EXIST
                        /\ cache_get(cache', get_key(f)) = GENERATING
              /\ proc[p].pc = "set_exists" /\ r.pc = "returned" /\ ~r.force
                 => cached(f) = GENERATING
                        /\ cache_get(cache', get_key(f)) = EXISTS
              /\ proc[p].pc = "render" /\ r.pc = "set_exists" /\ ~r.force
                 => renders[f] = 0 /\ renders'[f] = 1]_vars

\* Two tasks for the same file, scheduled by two Async.generate calls before
\* either ran: the first has rendered, the second has returned as a no-op.
C3_Witness ==
    \E p \in Workers :
        /\ last.op = "_generate_file" /\ ~last.force /\ last.pc = "returned"
        /\ last.pre \in {None, DOES_NOT_EXIST} /\ Rendered(last)
        /\ proc[p].op = "_generate_file" /\ ~proc[p].force
        /\ proc[p].pc = "returned" /\ proc[p].file = last.file
        /\ proc[p].trace = <<<<"get", EXISTS>>>>
        /\ renders[last.file] = 1

-----------------------------------------------------------------------------
\* C4: when generate_now(file) is called twice in sequence, not forced, and
\* the first call renders successfully, the second call reads EXISTS, does
\* not render and leaves the state EXISTS: one render in the two calls.
C4_SecondCallNoOp ==
    [][\A p \in Procs :
          LET r == proc'[p]
          IN  /\ Returns(p) \/ Raises(p)
              /\ r.op = "generate_now" /\ ~r.force
              /\ last.op = "generate_now" /\ ~last.force
              /\ last.file = r.file /\ last.pc = "returned" /\ Rendered(last)
              => /\ r.pc = "returned"
                 /\ r.state = EXISTS
                 /\ Attempts(last) + Attempts(r) = 1
                 /\ cache_get(cache', get_key(r.file)) = EXISTS]_vars

\* The second of two non-forced generate_now calls has returned, the first
\* having rendered.
C4_Witness ==
    \E p \in Procs :
        /\ proc[p].op = "generate_now" /\ ~proc[p].force
        /\ proc[p].pc = "returned"
        /\ last.op = "generate_now" /\ ~last.force
        /\ last.file = proc[p].file /\ last.pc = "returned" /\ Rendered(last)
        /\ proc[p].trace = <<<<"get", EXISTS>>>>

-----------------------------------------------------------------------------
\* C5: a forced generate_now never reads the cached state and never probes
\* storage; whatever the state before, it writes GENERATING, runs the render
\* and, when the render completes, writes EXISTS.
C5_ForceAlwaysRenders ==
    \A p \in Procs :
        LET r == proc[p]
        IN  r.op = "generate_now" /\ r.force
            => /\ Reads(r) = 0 /\ Probes(r) = 0
               /\ r.pc = "returned"
                    => r.trace = <<<<"set", GENERATING>>, <<"render", "ok">>,
                                   <<"set", EXISTS>>>>
               /\ r.pc = "raised"
                    => r.trace = <<<<"set", GENERATING>>, <<"render", "raise">>>>
               /\ r.pc \in {"set_generating", "render", "set_exists",
                           "returned", "raised"}

\* A forced generate_now called while the state was EXISTS has rendered again.
C5_Witness ==
    \E p \in Procs :
        /\ proc[p].op = "generate_now" /\ proc[p].force
        /\ proc[p].pre = EXISTS /\ proc[p].pc = "returned"
        /\ Rendered(proc[p]) /\ renders[proc[p].file] = 2

-----------------------------------------------------------------------------
\* C6: when file._generate() raises inside generate_now (called directly, by
\* Simple.generate or by the task), the call ends with the exception in the
\* same step: the render was tried once, the cache is not written again and
\* holds GENERATING with the long timeout; it is neither put back to what it
\* was before the call nor advanced to EXISTS, and the call does nothing more.
C6_RaiseLeavesGenerating ==
    [][\A p \in Procs :
          /\ Raises(p)
             => LET r == proc'[p]
                IN  /\ r.op \in GenOps
                    /\ proc[p].pc = "render"
                    /\ Attempts(r) = 1
                    /\ r.trace[Len(r.trace)] = <<"render", "raise">>
                    /\ r.trace[Len(r.trace) - 1] = <<"set", GENERATING>>
                    /\ cache' = cache
                    /\ cache'[get_key(r.file)] =
                           [state |-> GENERATING, ttl |-> DefaultTimeout]
          /\ proc[p].pc = "raised" => proc'[p] \in {proc[p], Idle}]_vars

\* A non-forced generate_now that found DOES_NOT_EXIST has raised, and the
\* state is GENERATING.
C6_Witness ==
    \E p \in Procs :
        /\ proc[p].op = "generate_now" /\ proc[p].pc = "raised"
        /\ proc[p].pre = DOES_NOT_EXIST
        /\ cached(proc[p].file) = GENERATING

-----------------------------------------------------------------------------
\* C7: a non-forced Async.generate(file) schedules no task when the cached
\* state is EXISTS or GENERATING, and schedules one task when it is absent or
\* DOES_NOT_EXIST.
C7_ScheduleOnlyIfNeeded ==
    [][\A p \in Procs :
          LET r == proc'[p]
          IN  Returns(p) /\ r.op = "Async_generate" /\ ~r.force
              => /\ r.state = Read(r)
                 /\ Read(r) \in {EXISTS, GENERATING}
                        => queue' = queue /\ ~Scheduled(r)
                 /\ Read(r) \in {None, DOES_NOT_EXIST}
                        => queue' = Append(queue, Task(r.file, FALSE))
                 /\ Scheduled(r) => Read(r) \in {None, DOES_NOT_EXIST}]_vars

\* A non-forced Async.generate has returned without scheduling, the state
\* being GENERATING, while an earlier task is still queued.
C7_Witness ==
    \E p \in Procs :
        /\ proc[p].op = "Async_generate" /\ ~proc[p].force
        /\ proc[p].pc = "returned" /\ proc[p].pre = GENERATING
        /\ ~Scheduled(proc[p]) /\ Len(queue) = 1

-----------------------------------------------------------------------------
\* C8: get_state(file) with check_if_unknown on a key without a record probes
\* once, returns EXISTS if the probe (file._file or storage.exists) is true
\* and DOES_NOT_EXIST otherwise, and stores what it returns; a get_state that
\* finds a record returns it without probing and without writing.
C8_ProbeWhenUnknown ==
    [][\A p \in Procs :
          LET r == proc'[p]
              f == r.file
          IN  Returns(p) /\ r.op = "get_state" /\ r.check
              => /\ Read(r) = None
                    => /\ r.ret = IF staged'[f] \/ storage'[f]
                                  THEN EXISTS ELSE DOES_NOT_EXIST
                       /\ r.trace = <<<<"get", None>>,
                                      <<"probe", Bool(r.ret = EXISTS)>>,
                                      <<"set", r.ret>>>>
                       /\ cache_get(cache', get_key(f)) = r.ret
                 /\ Read(r) # None
                    => /\ r.ret = Read(r)
                       /\ r.trace = <<<<"get", Read(r)>>>>
                       /\ cache' = cache]_vars

\* A get_state has returned the DOES_NOT_EXIST that the get_state before it
\* stored after probing.
C8_Witness ==
    \E p \in Procs :
        /\ last.op = "get_state" /\ last.pc = "returned"
        /\ last.trace = <<<<"get", None>>, <<"probe", "False">>,
                          <<"set", DOES_NOT_EXIST>>>>
        /\ proc[p].op = "get_state" /\ proc[p].pc = "returned"
        /\ proc[p].file = last.file /\ proc[p].check
        /\ proc[p].ret = DOES_NOT_EXIST /\ Probes(proc[p]) = 0

-----------------------------------------------------------------------------
\* C9: get_state(file, check_if_unknown=False) on a key without a record
\* returns None, which is none of the three states, makes no probe and
\* leaves the cache as it is.
C9_NoProbeWhenNotAsked ==
    [][\A p \in Procs :
          LET r == proc'[p]
          IN  /\ r.op = "get_state" /\ ~r.check /\ r # proc[p]
                 => cache' = cache
              /\ Returns(p) /\ r.op = "get_state" /\ ~r.check /\ Read(r) = None
                 => /\ r.ret = None
                    /\ r.ret \notin CacheFileState
                    /\ r.trace = <<<<"get", None>>>>
                    /\ cache'[get_key(r.file)] = NoRecord]_vars

\* A non-probing get_state has returned None for a file that is in storage.
C9_Witness ==
    \E p \in Procs :
        /\ proc[p].op = "get_state" /\ ~proc[p].check
        /\ proc[p].pc = "returned" /\ proc[p].ret = None
        /\ storage[proc[p].file]
        /\ cache[get_key(proc[p].file)] = NoRecord

-----------------------------------------------------------------------------
\* C10: a DOES_NOT_EXIST record is written with existence_check_timeout
\* time-units to live and never has more; while it is there a read returns
\* DOES_NOT_EXIST without probing, whatever storage holds, and a probing
\* get_state that finds no record probes again and reports EXISTS for a file
\* that is now in storage.
C10_NegativeExpires ==
    [][/\ \A k \in Keys :
            /\ cache[k].state = DOES_NOT_EXIST
                   => cache[k].ttl \in 1..existence_check_timeout
            /\ cache'[k].state = DOES_NOT_EXIST /\ cache[k].state # DOES_NOT_EXIST
                   => cache'[k].ttl = existence_check_timeout
            /\ cache[k].state = DOES_NOT_EXIST /\ cache'[k].state = DOES_NOT_EXIST
                   => cache'[k].ttl \in {cache[k].ttl, cache[k].ttl - 1,
                                         existence_check_timeout}
       /\ \A p \in Procs :
            LET r == proc'[p]
                f == r.file
            IN  Returns(p) /\ r.op \in {"get_state", "exists"} /\ r.check
                => /\ Read(r) = DOES_NOT_EXIST
                      => r.state = DOES_NOT_EXIST /\ Probes(r) = 0
                   /\ Read(r) = None
                      => Probes(r) = 1
                         /\ (storage'[f] => r.state = EXISTS)]_vars

\* A probing get_state has found the file, which the call before it had
\* reported DOES_NOT_EXIST: the record has expired and the file has appeared.
C10_Witness ==
    \E p \in Procs :
        /\ last.op = "get_state" /\ last.pc = "returned"
        /\ last.ret = DOES_NOT_EXIST
        /\ proc[p].op = "get_state" /\ proc[p].pc = "returned"
        /\ proc[p].file = last.file
        /\ proc[p].trace = <<<<"get", None>>, <<"probe", "True">>,
                             <<"set", EXISTS>>>>

-----------------------------------------------------------------------------
\* C11: an EXISTS or GENERATING record is written with the cache's default
\* timeout, not with existence_check_timeout, and only time takes from it;
\* every get_state that finds such a record, also after more than
\* existence_check_timeout time-units, returns its state without probing and
\* leaves the record as it is.
C11_PositiveKept ==
    [][/\ \A k \in Keys :
            /\ cache'[k].state \in {EXISTS, GENERATING} /\ cache'[k] # cache[k]
                   => \/ cache'[k].ttl = DefaultTimeout
                      \/ /\ cache'[k].state = cache[k].state
                         /\ cache'[k].ttl = cache[k].ttl - 1
                         /\ proc' = proc
            /\ cache[k].state \in {EXISTS, GENERATING}
                   => cache[k].ttl \in 1..DefaultTimeout
       /\ \A p \in Procs :
            LET r == proc'[p]
            IN  Returns(p) /\ r.op = "get_state"
                    /\ Read(r) \in {EXISTS, GENERATING}
                => /\ r.ret = Read(r)
                   /\ r.trace = <<<<"get", Read(r)>>>>
                   /\ cache' = cache]_vars

\* A get_state has returned EXISTS again, as the get_state before it did,
\* from a record older than existence_check_timeout.
C11_Witness ==
    \E p \in Procs :
        /\ last.op = "get_state" /\ last.pc = "returned" /\ last.ret = EXISTS
        /\ proc[p].op = "get_state" /\ proc[p].pc = "returned"
        /\ proc[p].file = last.file
        /\ proc[p].trace = <<<<"get", EXISTS>>>>
        /\ cache[get_key(last.file)].state = EXISTS
        /\ cache[get_key(last.file)].ttl + existence_check_timeout < DefaultTimeout

-----------------------------------------------------------------------------
\* C12: when celery cannot be imported, constructing Async raises
\* ImproperlyConfigured at once and changes nothing else; there is never an
\* Async instance, so no Async.generate call is ever made, no task is ever
\* queued or run, and an Async.generate call never renders on its caller.
C12_AsyncNeedsCelery ==
    [][/\ async # async'
          => /\ async = "unbuilt"
             /\ async' = IF celery THEN "built" ELSE "ImproperlyConfigured"
             /\ UNCHANGED <<celery, cache, storage, staged, queue, proc, last,
                            renders>>
       /\ ~celery
          => /\ celery' = celery
             /\ async' # "built"
             /\ queue' = <<>>
             /\ \A p \in Procs :
                    proc'[p].op \notin {"Async_generate", "_generate_file"}
       /\ \A p \in Procs :
              proc'[p].op = "Async_generate"
              => async' = "built" /\ celery' /\ Attempts(proc'[p]) = 0]_vars

\* Without celery the constructor has raised, and generation goes on through
\* Simple.generate.
C12_Witness ==
    /\ ~celery
    /\ async = "ImproperlyConfigured"
    /\ \E p \in Procs :
           proc[p].op = "Simple_generate" /\ proc[p].pc = "returned"
               /\ Rendered(proc[p])

-----------------------------------------------------------------------------
\* Specification of concurrent use: the calls of the callers and the tasks of
\* the workers interleave step by step, and records expire and storage
\* changes at any moment. Any two of the processes overlap: a call or a task
\* begins while at most one other process is busy.

\* As Return, without the record of the previous call: "the call before" means
\* nothing when calls overlap.
Dismiss(p) ==
    /\ proc[p].pc \in {"returned", "raised"}
    /\ proc' = [proc EXCEPT ![p] = Idle]
    /\ UNCHANGED <<celery, async, cache, storage, staged, queue, last, renders>>

\* The record of key k expires: its time is up. When calls overlap, how long a
\* record has yet to live is left open, so any record may be the next to go.
Expires(k) ==
    /\ cache[k] # NoRecord
    /\ cache' = [cache EXCEPT ![k] = NoRecord]
    /\ UNCHANGED <<celery, async, storage, staged, queue, proc, last, renders>>

Busy == {q \in Procs : proc[q].pc # "idle"}
OneOther == \A q1, q2 \in Busy : q1 = q2

\* No finished call is waiting to be dismissed. Dismiss touches nothing the
\* other processes read, so it is taken first.
Settled == \A q \in Procs : proc[q].pc \notin {"returned", "raised"}

ConcNext ==
    \/ \E p \in Procs : Settled /\ OneOther /\ Call(p)
    \/ \E p \in Procs : Settled /\ OneOther /\ RunTask(p)
    \/ \E p \in Procs : Settled /\ Step(p)
    \/ \E p \in Procs : Dismiss(p)
    \/ \E k \in Keys : Settled /\ Expires(k)
    \/ \E f \in Files : Settled /\ StorageAppear(f)
    \/ Settled /\ Async_init

ConcSpec == Init /\ [][ConcNext]_vars

-----------------------------------------------------------------------------
\* C18: in every reachable state, however the calls and tasks interleave, a
\* key of the cache has no record or a record whose state is EXISTS,
\* GENERATING or DOES_NOT_EXIST; None, which a read returns for a missing
\* record, is not one of them and is never written.
C18_OnlyThreeStates ==
    /\ None \notin CacheFileState
    /\ \A k \in Keys :
           \/ cache[k] = NoRecord
           \/ /\ cache[k].state \in CacheFileState
              /\ cache[k].ttl \in 1..DefaultTimeout
    /\ \A p \in Procs :
           \A i \in 1..Len(proc[p].trace) :
               proc[p].trace[i][1] = "set"
                   => proc[p].trace[i][2] \in CacheFileState

\* A non-probing get_state has returned None while another process is in the
\* middle of a generation.
C18_Witness ==
    \E p, q \in Procs :
        /\ p # q
        /\ proc[p].op = "get_state" /\ ~proc[p].check
        /\ proc[p].pc = "returned" /\ proc[p].ret = None
        /\ proc[q].pc = "render"
        /\ cache[get_key(proc[p].file)] = NoRecord

-----------------------------------------------------------------------------
\* C20: with no file removed from storage, for a file without an in-memory
\* file._file, in every reachable state of any interleaving of forced and
\* non-forced calls and tasks, with renders that complete or raise: if the
\* cached state is EXISTS, the file is in storage.
C20_ExistsIsStored ==
    \A f \in Files :
        ~staged[f] /\ cached(f) = EXISTS => storage[f]

\* The state is EXISTS after a render, the file is in storage, and a process
\* whose probe came too early is about to write DOES_NOT_EXIST.
C20_Witness ==
    \E f \in Files, p \in Procs :
        /\ ~staged[f] /\ cached(f) = EXISTS /\ storage[f]
        /\ renders[f] >= 1
        /\ proc[p].file = f /\ proc[p].pc = "set_probed" /\ ~proc[p].exists

-----------------------------------------------------------------------------
\* Specification of the race of section 5: each of the two callers makes one
\* non-forced generate_now call, the two calls interleave in every way, no
\* record expires and nothing else touches the cache or the storage.
RaceStep(p) ==
    \/ CacheGet(p)
    \/ Probe(p)
    \/ SetProbed(p)
    \/ SetGenerating(p)
    \/ RenderOk(p)
    \/ RenderRaise(p)
    \/ SetExists(p)

RaceNext ==
    \/ \E p \in Callers, f \in Files : Call_generate_now(p, f, FALSE)
    \/ \E p \in Callers : RaceStep(p)

RaceSpec == Init /\ [][RaceNext]_vars

\* C13: two concurrent non-forced generate_now calls on one file can both
\* read a state that is neither GENERATING nor EXISTS before either writes
\* GENERATING, and then both render; whenever both have rendered and
\* returned, the file was rendered twice, it is in storage and the cached
\* state is EXISTS. A caller at the cache read with GENERATING or EXISTS
\* cached does not render.
C13_DuplicateEndsInExists ==
    /\ \A p, q \in Callers :
           /\ p # q
           /\ proc[p].pc = "returned" /\ proc[q].pc = "returned"
           /\ proc[p].file = proc[q].file
           /\ Rendered(proc[p]) /\ Rendered(proc[q])
           => /\ cached(proc[p].file) = EXISTS
              /\ storage[proc[p].file]
              /\ renders[proc[p].file] = 2
              /\ Read(proc[p]) \notin {GENERATING, EXISTS}
              /\ Read(proc[q]) \notin {GENERATING, EXISTS}
    /\ \A p \in Callers :
           /\ Rendered(proc[p]) => Read(proc[p]) \notin {GENERATING, EXISTS}
           /\ proc[p].pc = "cache_get" => Writes(proc[p]) = <<>>

\* Both callers read an empty cache (no record was written yet: records do
\* not expire here), both probed and found no file, both rendered and
\* returned; the state is EXISTS.
C13_Witness ==
    \E p, q \in Callers :
        /\ p # q
        /\ proc[p].pc = "returned" /\ proc[q].pc = "returned"
        /\ proc[p].file = proc[q].file
        /\ ~proc[p].force /\ ~proc[q].force
        /\ Read(proc[p]) = None /\ Read(proc[q]) = None
        /\ ~proc[p].exists /\ ~proc[q].exists
        /\ Rendered(proc[p]) /\ Rendered(proc[q])
        /\ renders[proc[p].file] = 2
        /\ cached(proc[p].file) = EXISTS

-----------------------------------------------------------------------------
\* Specification of concurrent non-forced use without expiry: as ConcSpec,
\* with force = False in every call and no record leaving the cache.
QuietCall(p) ==
    \E f \in Files :
        \/ \E chk \in BOOLEAN : Call_get_state(p, f, chk)
        \/ Call_exists(p, f)
        \/ Call_generate_now(p, f, FALSE)
        \/ Call_Simple_generate(p, f, FALSE)
        \/ Call_Async_generate(p, f, FALSE)

QuietNext ==
    \/ \E p \in Procs : Settled /\ OneOther /\ QuietCall(p)
    \/ \E p \in Procs : Settled /\ OneOther /\ RunTask(p)
    \/ \E p \in Procs : Settled /\ Step(p)
    \/ \E p \in Procs : Dismiss(p)
    \/ \E f \in Files : Settled /\ StorageAppear(f)
    \/ Settled /\ Async_init

QuietSpec == Init /\ [][QuietNext]_vars

\* C19 as stated: with non-forced calls only and no expiry, a cached state
\* that is EXISTS stays EXISTS in every step.
C19_AsStated ==
    [][\A f \in Files :
           cached(f) = EXISTS => cache_get(cache', get_key(f)) = EXISTS]_vars

\* C19: with non-forced calls only and no expiry, a call that read EXISTS
\* writes nothing, and a step that replaces an EXISTS state is the write of a
\* call that read the cache before EXISTS was written: the GENERATING of a
\* generate_now (line 95) whose read returned no record or DOES_NOT_EXIST, or
\* the DOES_NOT_EXIST of a probing get_state (line 70) whose read returned
\* no record.
C19_OnlyStaleWritersOverwrite ==
    [][/\ \A p \in Procs :
              Read(proc'[p]) = EXISTS => Writes(proc'[p]) = <<>>
       /\ \A f \in Files :
              cached(f) = EXISTS /\ cache_get(cache', get_key(f)) # EXISTS
              => \E p \in Procs :
                     /\ proc[p].file = f
                     /\ proc'[p] # proc[p]
                     /\ \/ /\ proc[p].pc = "set_generating"
                           /\ Read(proc[p]) \in {None, DOES_NOT_EXIST}
                           /\ cache_get(cache', get_key(f)) = GENERATING
                        \/ /\ proc[p].pc = "set_probed"
                           /\ Read(proc[p]) = None
                           /\ ~proc[p].exists
                           /\ cache_get(cache', get_key(f)) = DOES_NOT_EXIST]_vars

\* A generation has completed and written EXISTS, and the only call in
\* progress, a non-forced one that read the cache before that, has since
\* replaced EXISTS with the state it derived from its own read.
C19_Witness ==
    \E f \in Files, p \in Procs :
        /\ renders[f] >= 1 /\ storage[f]
        /\ \A q \in Procs \ {p} : proc[q].pc = "idle"
        /\ proc[p].file = f /\ ~proc[p].force
        /\ \/ /\ proc[p].pc = "render"
              /\ Writes(proc[p])[Len(Writes(proc[p]))] = <<"set", GENERATING>>
              /\ cached(f) = GENERATING
           \/ /\ proc[p].op = "get_state"
              /\ proc[p].pc = "returned"
              /\ proc[p].ret = DOES_NOT_EXIST
              /\ cached(f) = DOES_NOT_EXIST

-----------------------------------------------------------------------------
\* C14: no step of an Async.generate call changes the cache, the storage or
\* the number of renders, and a step of it leaves the task queue as it was or
\* appends the one task (file, force) to it; a call that has returned made
\* one cache read, no probe, no write and no render, and scheduled at most
\* one task.
C14_AsyncGenerateOnlySchedules ==
    [][\A p \in Procs :
          LET r == proc'[p]
          IN  /\ r.op = "Async_generate" /\ r # proc[p]
                 => /\ cache' = cache
                    /\ storage' = storage
                    /\ staged' = staged
                    /\ renders' = renders
                    /\ \/ queue' = queue
                       \/ queue' = Append(queue, Task(r.file, r.force))
              /\ Returns(p) /\ r.op = "Async_generate"
                 => /\ Reads(r) = 1
                    /\ Probes(r) = 0
                    /\ Attempts(r) = 0
                    /\ Writes(r) = <<>>
                    /\ Len(r.trace) \in {1, 2}
                    /\ Len(r.trace) = 2 => r.trace[2] = <<"delay", Bool(r.force)>>
                    /\ cache_get(cache', get_key(r.file)) = r.pre]_vars

\* An Async.generate call has returned for a file that nothing has probed or
\* rendered: no record is cached, the file is not in storage, and its task is
\* the last of the queue.
C14_Witness ==
    \E p \in Procs :
        /\ proc[p].op = "Async_generate" /\ proc[p].pc = "returned"
        /\ Scheduled(proc[p])
        /\ cache[get_key(proc[p].file)] = NoRecord
        /\ ~storage[proc[p].file] /\ ~staged[proc[p].file]
        /\ renders[proc[p].file] = 0
        /\ queue # <<>>
        /\ queue[Len(queue)] = Task(proc[p].file, proc[p].force)

-----------------------------------------------------------------------------
\* C15: while the cached state is GENERATING and no generation is in
\* progress, a non-forced generate_now, Simple.generate, Async.generate or
\* task reads GENERATING and returns without a probe, a write, a render or a
\* scheduled task, leaving the record as it was; exists returns False without
\* probing; and the state stops being GENERATING only when the record
\* expires. (A forced call writes GENERATING again and is then a generation
\* in progress.)
C15_StuckGenerating ==
    [][/\ \A p \in Procs :
              LET r == proc'[p]
              IN  /\ /\ Returns(p) /\ r.pre = GENERATING /\ ~r.force
                     /\ r.op \in GenOps \cup {"Async_generate"}
                     => /\ r.trace = <<<<"get", GENERATING>>>>
                        /\ cache' = cache
                        /\ storage' = storage
                        /\ renders' = renders
                        /\ queue' = queue
                  /\ Returns(p) /\ r.pre = GENERATING /\ r.op = "exists"
                     => /\ r.ret = "False"
                        /\ r.trace = <<<<"get", GENERATING>>>>
                        /\ cache' = cache
       /\ \A f \in Files :
              /\ cached(f) = GENERATING
              /\ Generating(f) = {}
              /\ cache_get(cache', get_key(f)) # GENERATING
              => /\ cache[get_key(f)].ttl = 1
                 /\ cache' = Expire(cache)
                 /\ cache'[get_key(f)] = NoRecord
                 /\ proc' = proc]_vars

\* The previous call raised in the render; time has passed; a non-forced
\* Simple.generate has now returned without doing anything and the state is
\* still GENERATING.
C15_Witness ==
    \E p \in Procs :
        /\ last.pc = "raised" /\ last.file = proc[p].file
        /\ proc[p].op = "Simple_generate" /\ ~proc[p].force
        /\ proc[p].pc = "returned"
        /\ proc[p].trace = <<<<"get", GENERATING>>>>
        /\ cached(proc[p].file) = GENERATING
        /\ cache[get_key(proc[p].file)].ttl < DefaultTimeout
        /\ renders[proc[p].file] = 0

-----------------------------------------------------------------------------
\* C17: exists(file) returns True exactly when the get_state(file) it makes
\* returns EXISTS. With GENERATING or DOES_NOT_EXIST cached it returns False
\* without a probe and without a write, whether or not the file is in
\* storage; with EXISTS cached it returns True without a probe; with no
\* record it probes once, stores the state derived from the probe and
\* returns the probe's answer.
C17_ExistsIsGetStateExists ==
    [][\A p \in Procs :
          LET r == proc'[p]
              f == r.file
          IN  Returns(p) /\ r.op = "exists"
              => /\ r.ret = Bool(r.state = EXISTS)
                 /\ Read(r) = r.pre
                 /\ Read(r) \in {GENERATING, DOES_NOT_EXIST}
                        => /\ r.ret = "False"
                           /\ r.trace = <<<<"get", Read(r)>>>>
                           /\ cache' = cache
                 /\ Read(r) = EXISTS
                        => /\ r.ret = "True"
                           /\ r.trace = <<<<"get", EXISTS>>>>
                           /\ cache' = cache
                 /\ Read(r) = None
                        => /\ Probes(r) = 1
                           /\ r.exists = (staged'[f] \/ storage'[f])
                           /\ r.ret = Bool(r.exists)
                           /\ Writes(r) = <<<<"set", state_of_probe(r.exists)>>>>
                           /\ cache_get(cache', get_key(f)) = state_of_probe(r.exists)]_vars

\* exists has returned False from a cached GENERATING for a file that is in
\* storage, after a generation whose render completed but which the state
\* does not show (a later forced generation raised).
C17_Witness ==
    \E p \in Procs :
        /\ proc[p].op = "exists" /\ proc[p].pc = "returned"
        /\ proc[p].ret = "False"
        /\ Read(proc[p]) = GENERATING
        /\ Probes(proc[p]) = 0
        /\ storage[proc[p].file]
        /\ renders[proc[p].file] >= 1

-----------------------------------------------------------------------------
\* Specification for progress: callers call Simple.generate, Async.generate
\* and the probing get_state, forced or not, and workers run the tasks, all
\* interleaved freely; the render never raises and no record expires. A
\* call that has begun takes its next step eventually, a finished call is
\* left eventually (and before anything else happens), and a worker
\* eventually takes a queued task (weak fairness of each). A call begins only while a render remains for every
\* task queued or being scheduled, so that the bound on renders never keeps a
\* task from running.
Reserved(file) ==
    renders[file] + Cardinality(Generating(file)) + Len(queue)
        + Cardinality(Scheduling)

LiveCall(p) ==
    \E f \in Files :
        /\ Reserved(f) < MaxRenders
        /\ \/ Call_get_state(p, f, TRUE)
           \/ \E frc \in BOOLEAN : Call_Simple_generate(p, f, frc)
           \/ \E frc \in BOOLEAN : Call_Async_generate(p, f, frc)

LiveStep(p) ==
    \/ CacheGet(p)
    \/ Probe(p)
    \/ SetProbed(p)
    \/ SetGenerating(p)
    \/ RenderOk(p)
    \/ SetExists(p)
    \/ Delay(p)

LiveNext ==
    \/ \E p \in Procs : Settled /\ LiveCall(p)
    \/ \E p \in Procs : Settled /\ RunTask(p)
    \/ \E p \in Procs : Settled /\ LiveStep(p)
    \/ \E p \in Procs : Dismiss(p)
    \/ Settled /\ Async_init

LiveSpec ==
    /\ Init
    /\ [][LiveNext]_vars
    /\ \A p \in Procs :
           /\ WF_vars(LiveStep(p))
           /\ WF_vars(Dismiss(p))
           /\ WF_vars(RunTask(p))

\* C16: when the render never raises, no record expires and every begun call
\* and queued task runs on, a file for which a Simple.generate call is in
\* progress or a task is queued eventually has the cached state EXISTS.
C16_EventuallyExists ==
    \A f \in Files :
        (\/ \E p \in Procs :
                /\ proc[p].op = "Simple_generate" /\ proc[p].file = f
                /\ Active(p)
         \/ \E i \in 1..Len(queue) : queue[i].file = f)
        ~> (cached(f) = EXISTS)

\* The task that Async.generate queued for the file has been run by a
\* worker, which rendered the file and returned while a Simple.generate
\* call for the file is still in progress; the state is EXISTS.
C16_Witness ==
    \E p \in Callers, w \in Workers :
        /\ proc[p].op = "Simple_generate" /\ Active(p)
        /\ proc[w].op = "_generate_file" /\ proc[w].file = proc[p].file
        /\ proc[w].pc = "returned" /\ Rendered(proc[w])
        /\ queue = <<>>
        /\ cached(proc[p].file) = EXISTS

=============================================================================
